---- MODULE Spec2Model ----
(***************************************************************************)
(* Model of the SQLite WAL checkpointer (checkpoint.go).                   *)
(*                                                                         *)
(* NewCheckPointer disables automatic checkpointing and builds a           *)
(* checkpointer {m, wg, db, limit, i}.  Checkpoint() takes the mutex m,    *)
(* either counts the call (i < limit) or resets i, waits for the           *)
(* WaitGroup wg to drain and runs `pragma wal_checkpoint(restart)`, then   *)
(* registers itself with wg.Add(1), unlocks and then returns wg.Done.      *)
(*                                                                         *)
(* Every goroutine is a thread with a program counter that walks through   *)
(* the statements of Checkpoint; the blocking statements (m.Lock, wg.Wait, *)
(* the query) are steps of their own, so that every interleaving of the    *)
(* callers is explored.                                                    *)
(***************************************************************************)
EXTENDS Integers, FiniteSets, Sequences, TLC

\* ---- bounds of the model ------------------------------------------------
NumThreads == 3        \* goroutines calling Checkpoint
MaxLimit   == 3        \* the limit argument ranges over 0..MaxLimit
MaxCalls   == 6        \* Checkpoint is called at most this many times in a run

Threads  == 1..NumThreads
NoThread == 0          \* the mutex is free

\* Results of QueryRow(`pragma wal_checkpoint(restart)`).Scan(&failed, ...):
\* no error and failed = false, an engine error, or failed = true.
Outcomes == {"ok", "error", "failed"}

VARIABLES
    reqLimit,   \* the limit argument given to NewCheckPointer
    autockpt,   \* db: TRUE while wal_autocheckpoint is still enabled
    ret,        \* what NewCheckPointer returned: [done, ptr, err]
    c,          \* the checkpointer struct: [m, wg, limit, i]
    pc,         \* pc[t]: the statement of Checkpoint thread t is at
    path,       \* path[t]: the branch of the if thread t's call took
    res,        \* res[t]: the result of thread t's query (err / failed)
    held,       \* held[t]: release handles (wg.Done) t holds, not yet invoked
    logs,       \* lines written by log.Println
    nCalls,     \* history: calls of Checkpoint started
    nAdds,      \* history: wg.Add(1) executed
    nDones,     \* history: release handles invoked
    nQueries    \* history: checkpoint commands issued

vars == <<reqLimit, autockpt, ret, c, pc, path, res, held, logs,
          nCalls, nAdds, nDones, nQueries>>

\* ---- the data ------------------------------------------------------------

\* The zero value of the struct (before construction there is no instance).
ZeroCheckpointer == [m |-> NoThread, wg |-> 0, limit |-> 0, i |-> 0]

\* NewCheckPointer: the Exec of `pragma wal_autocheckpoint = 0` failed
\* -> (nil, err); otherwise &checkpointer{db: db, limit: limit}, nil.
NewIgnoringError(execErr, lim) ==
    [ptr |-> TRUE, err |-> FALSE,
     obj |-> [m |-> NoThread, wg |-> 0, limit |-> lim, i |-> 0]]

NewRejectingZeroLimit(execErr, lim) ==
    IF execErr \/ lim = 0
    THEN [ptr |-> FALSE, err |-> TRUE, obj |-> ZeroCheckpointer]
    ELSE [ptr |-> TRUE, err |-> FALSE,
          obj |-> [m |-> NoThread, wg |-> 0, limit |-> lim, i |-> 0]]

NewCheckPointerResult(execErr, lim) ==
    IF execErr
    THEN [ptr |-> FALSE, err |-> TRUE, obj |-> ZeroCheckpointer]
    ELSE [ptr |-> TRUE, err |-> FALSE,
          obj |-> [m |-> NoThread, wg |-> 0, limit |-> lim, i |-> 0]]

\* m.Lock() returns only when no goroutine holds the mutex.
MutexAlwaysFree(m) == TRUE

MutexFree(m) == m = NoThread

\* `if c.i < c.limit`
BelowOrAtLimit(i, limit) == i <= limit

BelowLimit(i, limit) == i < limit

\* wg.Wait() returns only when the WaitGroup counter is zero.
WaitNeverBlocks(n) == TRUE

WaitReady(n) == n = 0

\* wg.Add(delta) / wg.Done() = wg.Add(-1)
WgAdd(n, delta) == n + delta

\* log.Println is called once when the query errs or reports failed.
LogLines(outcome) == IF outcome = "ok" THEN 0 ELSE 1

\* The order of the statements of Checkpoint: the statement that follows
\* statement p on the branch `br` ("inc" or "drain") when the query gave
\* `outcome` (the code's control flow does not depend on the outcome).
NextPCAddFirst(p, br, outcome) ==
    CASE p = "lock"   -> "branch"
      [] p = "branch" -> "add"
      [] p = "add"    -> IF br = "drain" THEN "wait" ELSE "unlock"
      [] p = "wait"   -> "query"
      [] p = "query"  -> "unlock"
      [] p = "unlock" -> "return"
      [] p = "return" -> "idle"

NextPCReturnOnError(p, br, outcome) ==
    CASE p = "lock"   -> "branch"
      [] p = "branch" -> IF br = "drain" THEN "wait" ELSE "add"
      [] p = "wait"   -> "query"
      [] p = "query"  -> IF outcome = "ok" THEN "add" ELSE "unlock"
      [] p = "add"    -> "unlock"
      [] p = "unlock" -> "return"
      [] p = "return" -> "idle"

NextPCNoAddAfterDrain(p, br, outcome) ==
    CASE p = "lock"   -> "branch"
      [] p = "branch" -> IF br = "drain" THEN "wait" ELSE "add"
      [] p = "wait"   -> "query"
      [] p = "query"  -> "unlock"
      [] p = "add"    -> "unlock"
      [] p = "unlock" -> "return"
      [] p = "return" -> "idle"

NextPCAlwaysDrain(p, br, outcome) ==
    CASE p = "lock"   -> "branch"
      [] p = "branch" -> "wait"
      [] p = "wait"   -> "query"
      [] p = "query"  -> "add"
      [] p = "add"    -> "unlock"
      [] p = "unlock" -> "return"
      [] p = "return" -> "idle"

NextPCRetryOnFailure(p, br, outcome) ==
    CASE p = "lock"   -> "branch"
      [] p = "branch" -> IF br = "drain" THEN "wait" ELSE "add"
      [] p = "wait"   -> "query"
      [] p = "query"  -> IF outcome = "ok" THEN "add" ELSE "query"
      [] p = "add"    -> "unlock"
      [] p = "unlock" -> "return"
      [] p = "return" -> "idle"

NextPC(p, br, outcome) ==
    CASE p = "lock"   -> "branch"
      [] p = "branch" -> IF br = "drain" THEN "wait" ELSE "add"
      [] p = "wait"   -> "query"
      [] p = "query"  -> "add"
      [] p = "add"    -> "unlock"
      [] p = "unlock" -> "return"
      [] p = "return" -> "idle"

RECURSIVE SumOver(_, _)
SumOver(f, S) ==
    IF S = {} THEN 0
    ELSE LET t == CHOOSE x \in S : TRUE IN f[t] + SumOver(f, S \ {t})

\* Release handles issued and not yet invoked.
Outstanding == SumOver(held, Threads)

\* No call of Checkpoint is in progress and every handle has been invoked.
Quiescent == \A t \in Threads : pc[t] = "idle" /\ held[t] = 0

\* ---- the initial state ---------------------------------------------------

Init ==
    /\ reqLimit \in 0..MaxLimit
    /\ autockpt = TRUE
    /\ ret = [done |-> FALSE, ptr |-> FALSE, err |-> FALSE]
    /\ c = ZeroCheckpointer
    /\ pc = [t \in Threads |-> "idle"]
    /\ path = [t \in Threads |-> "none"]
    /\ res = [t \in Threads |-> "none"]
    /\ held = [t \in Threads |-> 0]
    /\ logs = 0
    /\ nCalls = 0
    /\ nAdds = 0
    /\ nDones = 0
    /\ nQueries = 0

\* ---- the operations ------------------------------------------------------

\* NewCheckPointer(db, limit): db.Exec either fails (nothing changes in the
\* database) or switches automatic checkpointing off.
NewCheckPointer ==
    /\ ~ret.done
    /\ \E execErr \in BOOLEAN :
         LET r == NewCheckPointerResult(execErr, reqLimit) IN
           /\ autockpt' = execErr
           /\ ret' = [done |-> TRUE, ptr |-> r.ptr, err |-> r.err]
           /\ c' = r.obj
    /\ UNCHANGED <<reqLimit, pc, path, res, held, logs,
                   nCalls, nAdds, nDones, nQueries>>

\* Thread t calls c.Checkpoint(): it arrives at m.Lock().
Call(t) ==
    /\ ret.done /\ ret.ptr
    /\ pc[t] = "idle"
    /\ nCalls < MaxCalls
    /\ pc' = [pc EXCEPT ![t] = "lock"]
    /\ nCalls' = nCalls + 1
    /\ UNCHANGED <<reqLimit, autockpt, ret, c, path, res, held, logs,
                   nAdds, nDones, nQueries>>

\* c.m.Lock()
Lock(t) ==
    /\ pc[t] = "lock"
    /\ MutexFree(c.m)
    /\ c' = [c EXCEPT !.m = t]
    /\ pc' = [pc EXCEPT ![t] = NextPC("lock", path[t], res[t])]
    /\ UNCHANGED <<reqLimit, autockpt, ret, path, res, held, logs,
                   nCalls, nAdds, nDones, nQueries>>

\* if c.i < c.limit { c.i++ } else { c.i = 0; ...
Branch(t) ==
    /\ pc[t] = "branch"
    /\ LET br == IF BelowLimit(c.i, c.limit) THEN "inc" ELSE "drain" IN
         /\ c' = [c EXCEPT !.i = IF br = "inc" THEN c.i + 1 ELSE 0]
         /\ path' = [path EXCEPT ![t] = br]
         /\ pc' = [pc EXCEPT ![t] = NextPC("branch", br, res[t])]
    /\ UNCHANGED <<reqLimit, autockpt, ret, res, held, logs,
                   nCalls, nAdds, nDones, nQueries>>

\* c.wg.Wait()
Wait(t) ==
    /\ pc[t] = "wait"
    /\ WaitReady(c.wg)
    /\ pc' = [pc EXCEPT ![t] = NextPC("wait", path[t], res[t])]
    /\ UNCHANGED <<reqLimit, autockpt, ret, c, path, res, held, logs,
                   nCalls, nAdds, nDones, nQueries>>

\* c.db.QueryRow(`pragma wal_checkpoint(restart)`).Scan(...) and the logging
\* of its result.  While pc[t] = "query" the command is executing.
Query(t) ==
    /\ pc[t] = "query"
    /\ \E outcome \in Outcomes :
         /\ res' = [res EXCEPT ![t] = outcome]
         /\ logs' = logs + LogLines(outcome)
         /\ pc' = [pc EXCEPT ![t] = NextPC("query", path[t], outcome)]
    /\ nQueries' = nQueries + 1
    /\ UNCHANGED <<reqLimit, autockpt, ret, c, path, held, nCalls, nAdds, nDones>>

\* c.wg.Add(1)
Add(t) ==
    /\ pc[t] = "add"
    /\ c' = [c EXCEPT !.wg = WgAdd(c.wg, 1)]
    /\ nAdds' = nAdds + 1
    /\ pc' = [pc EXCEPT ![t] = NextPC("add", path[t], res[t])]
    /\ UNCHANGED <<reqLimit, autockpt, ret, path, res, held, logs,
                   nCalls, nDones, nQueries>>

\* c.m.Unlock(): the mutex is free again; the call has not returned yet.
Unlock(t) ==
    /\ pc[t] = "unlock"
    /\ c' = [c EXCEPT !.m = NoThread]
    /\ pc' = [pc EXCEPT ![t] = NextPC("unlock", path[t], res[t])]
    /\ UNCHANGED <<reqLimit, autockpt, ret, path, res, held, logs,
                   nCalls, nAdds, nDones, nQueries>>

\* return c.wg.Done -- the caller now holds one more handle; the locals of
\* the call are gone.
Return(t) ==
    /\ pc[t] = "return"
    /\ pc' = [pc EXCEPT ![t] = NextPC("return", path[t], res[t])]
    /\ path' = [path EXCEPT ![t] = "none"]
    /\ res' = [res EXCEPT ![t] = "none"]
    /\ held' = [held EXCEPT ![t] = held[t] + 1]
    /\ UNCHANGED <<reqLimit, autockpt, ret, c, logs, nCalls, nAdds, nDones, nQueries>>

\* (a release that took the mutex: it could not run while a call holds it)
ReleaseUnderMutex(t) ==
    /\ pc[t] = "idle"
    /\ held[t] > 0
    /\ MutexFree(c.m)
    /\ held' = [held EXCEPT ![t] = held[t] - 1]
    /\ c' = [c EXCEPT !.wg = WgAdd(c.wg, -1)]
    /\ nDones' = nDones + 1
    /\ UNCHANGED <<reqLimit, autockpt, ret, pc, path, res, logs,
                   nCalls, nAdds, nQueries>>

\* Thread t invokes one of the handles it holds: wg.Done().
Release(t) ==
    /\ pc[t] = "idle"
    /\ held[t] > 0
    /\ held' = [held EXCEPT ![t] = held[t] - 1]
    /\ c' = [c EXCEPT !.wg = WgAdd(c.wg, -1)]
    /\ nDones' = nDones + 1
    /\ UNCHANGED <<reqLimit, autockpt, ret, pc, path, res, logs,
                   nCalls, nAdds, nQueries>>

\* A step of thread t inside Checkpoint.
Step(t) ==
    \/ Lock(t)
    \/ Branch(t)
    \/ Wait(t)
    \/ Query(t)
    \/ Add(t)
    \/ Unlock(t)
    \/ Return(t)

Next ==
    \/ NewCheckPointer
    \/ \E t \in Threads : Call(t)
    \/ \E t \in Threads : Step(t)
    \/ \E t \in Threads : Release(t)

Spec == Init /\ [][Next]_vars

\* Sequential use: a call starts only when the previous call has returned
\* and its handle has been invoked.
SeqCall(t) ==
    /\ Quiescent
    /\ Call(t)

SeqNext ==
    \/ NewCheckPointer
    \/ \E t \in Threads : SeqCall(t)
    \/ \E t \in Threads : Step(t)
    \/ \E t \in Threads : Release(t)

SeqSpec == Init /\ [][SeqNext]_vars

\* The Go scheduler runs every runnable goroutine: a thread inside
\* Checkpoint whose next statement can execute eventually executes it.
\* Nothing forces a caller to invoke a handle or to call again.
FairSpec == Spec /\ \A t \in Threads : WF_vars(Step(t))

\* ---- derived quantities --------------------------------------------------

\* Threads at one of the given statements.
At(S) == {t \in Threads : pc[t] \in S}

\* Calls of Checkpoint that have returned their handle.
Returned == Outstanding + nDones

\* ---- C1 ------------------------------------------------------------------
\* C1: whenever a thread is executing the checkpoint command, the WaitGroup
\* counter is zero and no issued release handle is still un-invoked.
C1_NoOutstandingDuringCheckpoint ==
    \A t \in Threads :
        pc[t] = "query" => (c.wg = 0 /\ Outstanding = 0)

\* A checkpoint is executing after handles were issued and released, while
\* another caller waits for the mutex.
C1_Witness ==
    \E t \in Threads :
        /\ pc[t] = "query"
        /\ nDones >= 2
        /\ \E u \in Threads \ {t} : pc[u] = "lock"

\* ---- C2 ------------------------------------------------------------------
\* C2 (as stated): after N sequential CheckIn/Release pairs with threshold
\* T >= 1 the checkpoint command has been issued floor(N / T) times.
C2_Original ==
    (ret.ptr /\ c.limit >= 1 /\ Quiescent) =>
        nQueries = nCalls \div c.limit

\* C2 (amended): after N sequential CheckIn/Release pairs with limit T the
\* checkpoint command has been issued floor(N / (T + 1)) times.
C2_SequentialCount ==
    (ret.ptr /\ Quiescent) =>
        nQueries = nCalls \div (c.limit + 1)

\* Scenario B on the code: limit 1, five sequential pairs, two checkpoints.
C2_Witness ==
    /\ ret.ptr
    /\ Quiescent
    /\ c.limit = 1
    /\ nCalls = 5
    /\ nDones = 5
    /\ nQueries = 2

\* ---- C3 ------------------------------------------------------------------
\* C3: at most one thread executes the checkpoint command at a time, and
\* the decision, the drain and the command all run with the mutex held by
\* the thread that performs them.
C3_OneCheckpointAtATime ==
    /\ Cardinality(At({"query"})) <= 1
    /\ \A t \in Threads :
           pc[t] \in {"branch", "wait", "query"} => c.m = t

\* A checkpoint is executing while two other callers contend for the mutex.
C3_Witness ==
    \E t \in Threads :
        /\ pc[t] = "query"
        /\ \A u \in Threads \ {t} : pc[u] = "lock"

\* ---- C4 ------------------------------------------------------------------
\* C4 (as stated): on a fresh checkpointer with threshold T, the T-th call
\* does not return before the T-1 handles issued before it have been
\* invoked, and when it has returned the checkpoint command has run once.
C4_Original ==
    (ret.ptr /\ c.limit >= 1 /\ nCalls = c.limit /\ Returned = c.limit) =>
        (nDones >= c.limit - 1 /\ nQueries = 1)

\* C4 (amended): on a fresh checkpointer with limit T the first T calls
\* return without waiting and without a checkpoint; the (T+1)-th call does
\* not start the checkpoint command, nor return, before all T handles
\* issued before it have been invoked; it runs the command exactly once;
\* and once the T handles are invoked it does run it and return.
C4_CrossingCallBlocks ==
    /\ [](ret.ptr /\ nCalls <= c.limit => nQueries = 0 /\ At({"wait", "query"}) = {})
    /\ [](ret.ptr /\ nCalls = c.limit + 1 =>
            /\ nQueries <= 1
            /\ (At({"query"}) # {} \/ nQueries = 1 \/ Returned = c.limit + 1)
                   => nDones >= c.limit
            /\ Returned = c.limit + 1 => nQueries = 1)
    /\ \A t \in Threads :
           (nCalls = c.limit + 1 /\ pc[t] = "wait" /\ nDones = c.limit)
               ~> (Returned >= c.limit + 1 /\ nQueries >= 1)

\* Scenario A on the code: limit 3, three handles issued and none invoked,
\* the fourth call is waiting for them.
C4_Witness ==
    \E t \in Threads :
        /\ c.limit = 3
        /\ nCalls = 4
        /\ pc[t] = "wait"
        /\ Outstanding = 3
        /\ nDones = 0

\* ---- C5 ------------------------------------------------------------------
\* C5: the step that completes the checkpoint command leaves the
\* checkpointer and the handles untouched whatever the outcome, with the
\* counter at 0, and goes on to wg.Add(1); whatever the outcome, the call
\* then registers once, releases the mutex with the counter still 0 and
\* returns one new handle without touching the checkpointer.  From the
\* reset to the release of the mutex the counter is 0 and the mutex is the
\* draining call's.
C5_OutcomeIgnored ==
    /\ [](\A t \in Threads :
            (path[t] = "drain" /\ pc[t] \in {"wait", "query", "add", "unlock"})
                => (c.i = 0 /\ c.m = t))
    /\ [][\A t \in Threads :
            /\ (pc[t] = "query" /\ pc'[t] # "query") =>
                   /\ c' = c
                   /\ c.i = 0
                   /\ held' = held
                   /\ pc'[t] = "add"
            /\ (path[t] = "drain" /\ pc[t] = "add" /\ pc'[t] # "add") =>
                   /\ pc'[t] = "unlock"
                   /\ c' = [c EXCEPT !.wg = c.wg + 1]
            /\ (path[t] = "drain" /\ pc[t] = "unlock" /\ pc'[t] # "unlock") =>
                   /\ pc'[t] = "return"
                   /\ c' = [c EXCEPT !.m = NoThread]
                   /\ c'.i = 0
                   /\ c'.wg >= 1
            /\ (path[t] = "drain" /\ pc[t] = "return" /\ pc'[t] # "return") =>
                   /\ pc'[t] = "idle"
                   /\ held'[t] = held[t] + 1
                   /\ c' = c
                   /\ c.wg >= 1
      ]_vars

\* A call whose checkpoint command erred is about to return its handle
\* after an earlier one reported failure or erred too.
C5_Witness ==
    \E t \in Threads :
        /\ pc[t] = "return"
        /\ res[t] = "error"
        /\ logs >= 2
        /\ c.i = 0
        /\ c.m = NoThread
        /\ c.wg >= 1

\* ---- C6 ------------------------------------------------------------------
\* C6: when the command that disables automatic checkpointing fails,
\* NewCheckPointer returns an error and no checkpointer, and nothing is
\* ever called on it; when it succeeds, a checkpointer is returned with
\* i = 0, an empty WaitGroup, a free mutex and the given limit, and no
\* checkpoint command has been issued.
C6_Construction ==
    ret.done =>
        IF autockpt
        THEN /\ ret.err /\ ~ret.ptr
             /\ c = ZeroCheckpointer
             /\ nCalls = 0 /\ nQueries = 0
        ELSE /\ ret.ptr /\ ~ret.err
             /\ c.limit = reqLimit
             /\ nCalls = 0 =>
                  /\ c = [m |-> NoThread, wg |-> 0, limit |-> reqLimit, i |-> 0]
                  /\ nQueries = 0

\* The construction failed.
C6_Witness ==
    /\ ret.done
    /\ autockpt
    /\ ret.err
    /\ ~ret.ptr
    /\ reqLimit = MaxLimit

\* ---- C7 ------------------------------------------------------------------
\* C7: whenever no thread holds the mutex, 0 <= i <= limit.
C7_CountWithinLimit ==
    c.m = NoThread => (0 <= c.i /\ c.i <= c.limit)

\* The counter is back at the limit after a checkpoint, callers pending.
C7_Witness ==
    /\ c.m = NoThread
    /\ c.limit >= 2
    /\ c.i = c.limit
    /\ nQueries >= 1
    /\ At({"lock"}) # {}

\* ---- C8 ------------------------------------------------------------------
\* C8: the WaitGroup counter is never negative, equals the registrations
\* minus the handles invoked, every call past its wg.Add(1) has registered
\* exactly once, and the counter equals the handles returned and not yet
\* invoked plus the calls that have registered and not yet returned.
C8_BarrierCount ==
    /\ c.wg >= 0
    /\ c.wg = nAdds - nDones
    /\ nAdds = nCalls - Cardinality(At({"lock", "branch", "wait", "query", "add"}))
    /\ c.wg = Outstanding + Cardinality(At({"unlock", "return"}))

\* Handles issued by counting and by draining calls, some of them invoked.
C8_Witness ==
    /\ nQueries >= 1
    /\ nDones >= 2
    /\ c.wg >= 2
    /\ At({"unlock"}) # {}
    /\ At({"return"}) # {}

\* ---- C9 ------------------------------------------------------------------
\* C9: a draining call has not registered itself while it waits or runs the
\* checkpoint command (the counter holds only the handles returned and
\* the registrations of calls about to return), and a draining call that
\* waits when every registration made before it has been released runs
\* the command and returns its handle, no release needed.
C9_NoSelfWait ==
    /\ [](\A t \in Threads :
            pc[t] \in {"wait", "query"} =>
                c.wg = Outstanding + Cardinality(At({"return"})))
    /\ \A t \in Threads :
           (pc[t] = "wait" /\ Outstanding = 0 /\ At({"return"}) = {})
               ~> (pc[t] = "idle" /\ held[t] >= 1 /\ nQueries >= 1)

\* A draining call waits after every handle issued before was invoked.
C9_Witness ==
    \E t \in Threads :
        /\ pc[t] = "wait"
        /\ Outstanding = 0
        /\ At({"return"}) = {}
        /\ nDones >= 2

\* ---- C10 -----------------------------------------------------------------
\* C10: while a thread waits for the drain or runs the checkpoint command
\* it holds the mutex, every other thread is outside Checkpoint, waiting
\* for the mutex or past its Unlock, and a step changes neither i nor
\* limit, registers nothing, and can only lower the WaitGroup counter.
C10_DrainWindowExclusive ==
    [][\A t \in Threads :
         pc[t] \in {"wait", "query"} =>
            /\ c.m = t /\ c'.m = t
            /\ c'.i = c.i
            /\ c'.limit = c.limit
            /\ c'.wg <= c.wg
            /\ nAdds' = nAdds
            /\ \A u \in Threads \ {t} :
                   /\ pc[u] \in {"idle", "lock", "return"}
                   /\ pc'[u] \in {"idle", "lock", "return"}
                   /\ pc[u] = "lock" => pc'[u] = "lock"
      ]_vars

\* A draining call is blocked on outstanding handles while another caller
\* waits for the mutex and a third holds a handle.
C10_Witness ==
    \E t \in Threads :
        /\ pc[t] = "wait"
        /\ c.wg > 0
        /\ \E u \in Threads \ {t} : pc[u] = "lock"

\* Calls that have taken their branch of the if (history, derived).
Branched == nCalls - Cardinality(At({"lock", "branch"}))

\* ---- C11 -----------------------------------------------------------------
\* C11: a thread is at wg.Wait or at the checkpoint command only if its
\* call found i = limit; a call that finds i < limit increments i, goes
\* straight to wg.Add(1) and issues no command, and from there its next
\* statement can always execute, whatever the WaitGroup counter is.
C11_OnlyCrossingCallWaits ==
    /\ [](\A t \in Threads :
            /\ pc[t] \in {"wait", "query"} => path[t] = "drain"
            /\ path[t] = "inc" =>
                 /\ pc[t] \in {"add", "unlock", "return"}
                 /\ res[t] = "none"
                 /\ ENABLED Step(t))
    /\ [][\A t \in Threads :
            (pc[t] = "branch" /\ pc'[t] # "branch") =>
                IF c.i < c.limit
                THEN /\ c'.i = c.i + 1
                     /\ pc'[t] = "add"
                     /\ nQueries' = nQueries
                ELSE /\ c.i = c.limit
                     /\ pc'[t] = "wait"
      ]_vars

\* A counting call is past its branch while two handles are outstanding.
C11_Witness ==
    \E t \in Threads :
        /\ path[t] = "inc"
        /\ pc[t] = "add"
        /\ c.wg >= 2
        /\ nQueries >= 1

\* ---- C12 -----------------------------------------------------------------
\* C12: no call is lost or counted twice: i is the number of calls that
\* took their branch, modulo limit + 1; every call past its wg.Add(1) has
\* registered exactly once; a draining call leaves i = 0 when it releases
\* the mutex, and i changes neither while the mutex is free nor when it is
\* acquired, so the next caller to lock finds i = 0.
C12_NoLostOrDoubleCount ==
    /\ [](ret.ptr =>
            /\ c.i = Branched % (c.limit + 1)
            /\ nAdds = Branched - Cardinality(At({"wait", "query", "add"})))
    /\ [][/\ \A t \in Threads :
               (path[t] = "drain" /\ pc[t] = "unlock" /\ pc'[t] # "unlock") =>
                   (c'.i = 0 /\ c'.m = NoThread)
          /\ (ret.ptr /\ c.m = NoThread) => c'.i = c.i
      ]_vars

\* A draining call is executing the command while the two other threads
\* have arrived at the mutex, after earlier calls were counted.
C12_Witness ==
    \E t \in Threads :
        /\ pc[t] = "query"
        /\ c.limit >= 1
        /\ nQueries >= 1
        /\ \A u \in Threads \ {t} : pc[u] = "lock"

\* ---- C13 -----------------------------------------------------------------
\* C13: a draining call issues the checkpoint command exactly once: it has
\* no result before the command and one result after it, the step that
\* completes the command goes on to wg.Add(1) whatever the outcome, and
\* the commands issued or pending number one per limit + 1 calls, so
\* between two commands i has climbed from 0 to limit.
C13_NoRetry ==
    /\ [](\A t \in Threads :
            /\ pc[t] \in {"wait", "query"} => res[t] = "none"
            /\ (path[t] = "drain" /\ pc[t] \in {"add", "unlock", "return"})
                   => res[t] \in Outcomes)
    /\ [](ret.ptr =>
            nQueries + Cardinality(At({"wait", "query"}))
                = Branched \div (c.limit + 1))
    /\ [][\A t \in Threads :
            /\ (pc[t] = "query" /\ pc'[t] # pc[t]) =>
                   (pc'[t] = "add" /\ nQueries' = nQueries + 1)
            /\ nQueries' # nQueries =>
                   (nQueries' = nQueries + 1 /\ At({"query"}) # {})
            /\ (pc[t] # "query" /\ pc'[t] = "query") =>
                   (pc[t] = "wait" /\ c.i = 0 /\ res[t] = "none")
      ]_vars

\* A second command reported failure, after the counter climbed again.
C13_Witness ==
    \E t \in Threads :
        /\ pc[t] = "add"
        /\ res[t] = "failed"
        /\ c.limit >= 1
        /\ nQueries = 2
        /\ logs = 2

\* ---- C14 -----------------------------------------------------------------
\* C14: invoking a handle lowers the WaitGroup counter by one and changes
\* nothing else of the checkpointer (i, limit and the mutex stay as they
\* are), issues no command and writes no log; a thread outside Checkpoint
\* that holds a handle can invoke it whoever holds the mutex; and i
\* changes only in the step of a thread that is inside Checkpoint, at the
\* if, with the mutex held.
C14_ReleaseFrame ==
    /\ [](\A t \in Threads :
            (pc[t] = "idle" /\ held[t] > 0) => ENABLED Release(t))
    /\ [][/\ nDones' # nDones =>
               /\ nDones' = nDones + 1
               /\ c' = [c EXCEPT !.wg = c.wg - 1]
               /\ nQueries' = nQueries
               /\ logs' = logs
               /\ pc' = pc
               /\ nAdds' = nAdds
          /\ c'.i # c.i =>
               /\ nDones' = nDones
               /\ \E t \in Threads :
                      pc[t] = "branch" /\ c.m = t /\ pc'[t] # "branch"
      ]_vars

\* A handle has been invoked while a draining call holds the mutex and
\* waits: the counter fell to zero with i and the mutex untouched.
C14_Witness ==
    \E t \in Threads :
        /\ pc[t] = "wait"
        /\ c.m = t
        /\ c.wg = 0
        /\ nDones = c.limit
        /\ c.limit >= 2
        /\ nCalls = c.limit + 1

\* ---- disciplined use -----------------------------------------------------

\* The documented use, `defer c.Checkpoint()()`: a thread calls Checkpoint
\* only when it holds no handle of an earlier call.
DiscCall(t) ==
    /\ held[t] = 0
    /\ Call(t)

DiscNext ==
    \/ NewCheckPointer
    \/ \E t \in Threads : DiscCall(t)
    \/ \E t \in Threads : Step(t)
    \/ \E t \in Threads : Release(t)

\* Fair scheduling: a runnable goroutine runs, a goroutine waiting for the
\* mutex gets it if it is free again and again (sync.Mutex hands the lock
\* to a starving waiter), and every handle held is eventually invoked.
DiscFairSpec ==
    /\ Init
    /\ [][DiscNext]_vars
    /\ \A t \in Threads :
           /\ WF_vars(Step(t))
           /\ SF_vars(Lock(t))
           /\ WF_vars(Release(t))

\* ---- C15 -----------------------------------------------------------------
\* C15: in disciplined use under fair scheduling every call of Checkpoint
\* returns, and whenever a call is in progress or a handle is held some
\* thread can take a step: a release is possible while a draining call
\* holds the mutex.
C15_EveryCallReturns ==
    /\ \A t \in Threads : (pc[t] # "idle") ~> (pc[t] = "idle")
    /\ [](\A t \in Threads : held[t] <= 1)
    /\ []((\E t \in Threads : pc[t] # "idle" \/ held[t] > 0) =>
            (\E t \in Threads : ENABLED (Step(t) \/ Release(t))))

\* A draining call waits for the one handle still held while the third
\* thread is queued on the mutex.
C15_Witness ==
    \E t \in Threads :
        /\ pc[t] = "wait"
        /\ c.wg = 1
        /\ nQueries >= 1
        /\ \E u \in Threads \ {t} : pc[u] = "lock" /\ held[u] = 0
        /\ \E v \in Threads \ {t} : pc[v] = "idle" /\ held[v] = 1

\* ---- C16 -----------------------------------------------------------------
\* C16: once a thread waits for the drain while it holds a handle of its
\* own, it stays there for ever, holding the mutex, its handle un-invoked
\* and the WaitGroup counter positive; no command is issued any more, and
\* every thread that is or arrives at the mutex stays there.
C16_NestedCallDeadlocks ==
    [][\A t \in Threads :
         (pc[t] = "wait" /\ held[t] > 0) =>
            /\ pc'[t] = "wait"
            /\ held'[t] = held[t]
            /\ c.m = t /\ c'.m = t
            /\ c.wg >= 1 /\ c'.wg >= 1
            /\ nQueries' = nQueries
            /\ \A u \in Threads \ {t} :
                   /\ pc[u] \in {"idle", "lock", "return"}
                   /\ pc[u] = "lock" => pc'[u] = "lock"
                   /\ pc'[u] \in {"idle", "lock", "return"}
      ]_vars

\* The deadlock: a thread drains holding its own handle, every other handle
\* has been invoked, and the two other threads are stuck on the mutex.
C16_Witness ==
    \E t \in Threads :
        /\ pc[t] = "wait"
        /\ held[t] = 1
        /\ c.wg = 1
        /\ nDones >= 1
        /\ \A u \in Threads \ {t} : pc[u] = "lock" /\ held[u] = 0

\* ---- C17 -----------------------------------------------------------------
\* C17: in a sequential run the k-th call takes the draining branch, and so
\* issues the checkpoint command, exactly when k is a multiple of
\* limit + 1; the draining call leaves i at 0 (it is not counted) and a
\* counting call leaves i at k modulo limit + 1.
C17_EveryLimitPlusOne ==
    \A t \in Threads :
        /\ path[t] = "drain" =>
              (nCalls > 0 /\ nCalls % (c.limit + 1) = 0 /\ c.i = 0)
        /\ path[t] = "inc" =>
              (nCalls % (c.limit + 1) # 0 /\ c.i = nCalls % (c.limit + 1))
        /\ pc[t] \in {"wait", "query"} => path[t] = "drain"
        /\ pc[t] \in {"add", "unlock", "return"} => path[t] \in {"inc", "drain"}

\* Limit 2: the sixth call runs the second command.
C17_Witness ==
    \E t \in Threads :
        /\ c.limit = 2
        /\ nCalls = 6
        /\ pc[t] = "query"
        /\ nQueries = 1
        /\ nDones = 5

\* ---- C18 -----------------------------------------------------------------
\* C18: NewCheckPointer accepts limit 0 (it fails only when the Exec
\* fails), and with limit 0 i stays 0, no call takes the counting branch
\* and every call that took its branch has issued or is about to issue
\* the checkpoint command, after waiting for the outstanding handles.
C18_LimitZero ==
    /\ (ret.done /\ reqLimit = 0 /\ ~autockpt) => (ret.ptr /\ ~ret.err)
    /\ (ret.ptr /\ reqLimit = 0) =>
           /\ c.limit = 0
           /\ c.i = 0
           /\ \A t \in Threads : path[t] # "inc"
           /\ nQueries + Cardinality(At({"wait", "query"})) = Branched
           /\ \A t \in Threads : pc[t] = "query" => c.wg = 0

\* Limit 0: the third call drains behind the handle of the second; both
\* earlier calls ran the command.
C18_Witness ==
    \E t \in Threads :
        /\ ret.ptr
        /\ c.limit = 0
        /\ pc[t] = "wait"
        /\ c.wg = 1
        /\ nQueries = 2
        /\ nCalls = 3
        /\ nDones = 1

\* ---- C19 -----------------------------------------------------------------
\* C19: a call enters the draining branch only with i = limit exactly, i
\* is never above limit, and i is 0 for as long as a thread waits for the
\* drain or executes the checkpoint command.
C19_DrainAtLimitCountZero ==
    /\ [](c.i <= c.limit)
    /\ [](\A t \in Threads : pc[t] \in {"wait", "query"} => c.i = 0)
    /\ [][\A t \in Threads :
            /\ (pc[t] = "branch" /\ pc'[t] = "wait") =>
                   (c.i = c.limit /\ c'.i = 0)
            /\ (pc[t] \in {"wait", "query"}) => c'.i = 0
      ]_vars

\* The command is executing with a positive limit, after i had reached it.
C19_Witness ==
    \E t \in Threads :
        /\ pc[t] = "query"
        /\ c.limit = MaxLimit
        /\ c.i = 0
        /\ nCalls >= c.limit + 2

====
